---- MODULE Spec2Model ----
(***************************************************************************)
(* njord, sqlite back end: the SELECT query builder (sqlite/query.rs) and  *)
(* the INSERT statement generator (sqlite/insert.rs).                      *)
(*                                                                         *)
(* SQL text is a sequence of one-character strings, so that separators,    *)
(* padding and trailing characters are visible to the properties.          *)
(***************************************************************************)
EXTENDS Integers, Sequences, FiniteSets, TLC

\* ------------------------------------------------------------------ bounds
\* largest argument given to limit() and offset()
MaxCount == 10
\* largest number of rows the table holds
MaxRows == 2

\* ------------------------------------------------------------ Option<T>
None == [tag |-> "None"]
Some(x) == [tag |-> "Some", v |-> x]
is_some(o) == o.tag = "Some"

\* ---------------------------------------------------------- Result<T>
Ok(x) == [tag |-> "Ok", v |-> x]
Err(e) == [tag |-> "Err", e |-> e]

\* -------------------------------------------------------------- text
RECURSIVE join(_, _)
\* [String]::join: the items with sep between neighbours
join(items, sep) ==
  IF items = <<>> THEN <<>>
  ELSE IF Len(items) = 1 THEN items[1]
  ELSE items[1] \o sep \o join(Tail(items), sep)

\* String::pop: drops the last character, if there is one
pop(s) == IF s = <<>> THEN s ELSE SubSeq(s, 1, Len(s) - 1)

Digits == <<"0", "1", "2", "3", "4", "5", "6", "7", "8", "9">>

RECURSIVE to_string(_)
\* Display of an unsigned integer: its decimal digits
to_string(n) ==
  IF n < 10 THEN <<Digits[n + 1]>>
  ELSE to_string(n \div 10) \o <<Digits[(n % 10) + 1]>>

CommaSpace == <<",", " ">>
Space == <<" ">>

\* ---------------------------------------------------------------- names
id == <<"i", "d">>
name == <<"n", "a", "m", "e">>
users == <<"u", "s", "e", "r", "s">>
audit == <<"a", "u", "d", "i", "t">>
ASC == <<"A", "S", "C">>
DESC == <<"D", "E", "S", "C">>
OBrien == <<"O", "'", "B", "r", "i", "e", "n">>

\* --------------------------------------------------------------- Value
Integer(i) == [type |-> "Integer", i |-> i]
Text(t) == [type |-> "Text", t |-> t]
Null == [type |-> "Null"]

RECURSIVE escape_quotes(_)
\* every single quote of a text doubled
escape_quotes(t) ==
  IF t = <<>> THEN <<>>
  ELSE (IF Head(t) = "'" THEN <<"'", "'">> ELSE <<Head(t)>>) \o escape_quotes(Tail(t))

\* the SQL literal of one value
convert_value(v) ==
  CASE v.type = "Integer" -> to_string(v.i)
    [] v.type = "Text" -> <<"'">> \o escape_quotes(v.t) \o <<"'">>
    [] v.type = "Null" -> <<"N", "U", "L", "L">>

\* util::convert_insert_values: one literal per value, in the same order
convert_insert_values(values) ==
  [i \in 1..Len(values) |-> convert_value(values[i])]

\* ----------------------------------------------------------- Condition
Eq(column, value) == [kind |-> "Eq", column |-> column, value |-> value]
And(l, r) == [kind |-> "And", l |-> l, r |-> r]

RECURSIVE condition_build(_)
\* Condition::build: the predicate as SQL text
condition_build(c) ==
  IF c.kind = "Eq"
  THEN c.column \o <<" ", "=", " ">> \o convert_value(c.value)
  ELSE <<"(">> \o condition_build(c.l) \o <<")", " ", "A", "N", "D", " ", "(">>
         \o condition_build(c.r) \o <<")">>

\* ---------------------------------------------------------------- Table
\* a record that implements Table: get_name, get_column_fields,
\* get_column_values
TableRow(n, fields, values) ==
  [name |-> n, column_fields |-> fields, column_values |-> values]

get_name(t) == t.name
get_column_fields(t) == t.column_fields
get_column_values(t) == t.column_values

\* ------------------------------------------------------- input domains
UsersTable == TableRow(users, <<id, name>>, <<Integer(0), Text(<<>>)>>)
ColumnLists == {<<id, name>>, <<name>>}
Conditions ==
  {Eq(id, Integer(5)), And(Eq(id, Integer(5)), Eq(name, Text(OBrien)))}
HavingConditions == {Eq(id, Integer(5))}
GroupLists == {<<name>>}
Counts == {0, MaxCount}
\* HashMap<Vec<String>, String>: a function from column groups to directions
EmptyMap == [k \in {} |-> ASC]
OrderMaps ==
  {EmptyMap, [k \in {<<id>>} |-> ASC],
   [k \in {<<id>>, <<name>>} |-> IF k = <<id>> THEN ASC ELSE DESC]}

\* ------------------------------------------------------- QueryBuilder
\* QueryBuilder::new
new(columns) ==
  [table |-> None, columns |-> columns, where_condition |-> None,
   selected |-> FALSE, distinct |-> FALSE, group_by |-> None,
   order_by |-> None, limit |-> None, offset |-> None,
   having_condition |-> None]

select(b, columns) == [b EXCEPT !.columns = columns, !.selected = TRUE]
distinct(b) == [b EXCEPT !.distinct = TRUE]
from(b, table) == [b EXCEPT !.table = Some(table)]
where_clause(b, condition) == [b EXCEPT !.where_condition = Some(condition)]
group_by(b, columns) == [b EXCEPT !.group_by = Some(columns)]
order_by(b, col_and_order) == [b EXCEPT !.order_by = Some(col_and_order)]
limit(b, count) == [b EXCEPT !.limit = Some(count)]
offset(b, n) == [b EXCEPT !.offset = Some(n)]
having(b, condition) == [b EXCEPT !.having_condition = Some(condition)]

\* ------------------------------------------- build(): the compiled text
columns_str(b) == join(b.columns, CommaSpace)

table_name_str(b) == IF is_some(b.table) THEN get_name(b.table.v) ELSE <<>>

distinct_str(b) ==
  IF b.distinct THEN <<"D", "I", "S", "T", "I", "N", "C", "T", " ">> ELSE <<>>

where_condition_str(b) ==
  IF is_some(b.where_condition)
  THEN <<"W", "H", "E", "R", "E", " ">> \o condition_build(b.where_condition.v)
  ELSE <<>>

group_by_str(b) ==
  IF is_some(b.group_by)
  THEN <<"G", "R", "O", "U", "P", " ", "B", "Y", " ">> \o join(b.group_by.v, CommaSpace)
  ELSE <<>>

\* the orders in which iter() may visit the entries of a hash map: the
\* order is not specified, and differs from one map to the next
IterOrders(m) ==
  LET n == Cardinality(DOMAIN m)
  IN {s \in [1..n -> DOMAIN m] : \A i, j \in 1..n : i # j => s[i] # s[j]}

\* the ORDER BY clause built as always present, empty mapping or not
order_by_str_unchecked(b, iter) ==
  IF is_some(b.order_by)
  THEN <<"O", "R", "D", "E", "R", " ", "B", "Y", " ">>
         \o join([i \in 1..Len(iter) |-> join(iter[i], CommaSpace) \o Space \o b.order_by.v[iter[i]]],
                 CommaSpace)
  ELSE <<>>

\* iter: the order in which the map's entries are visited
order_by_str(b, iter) ==
  IF is_some(b.order_by)
  THEN LET terms == [i \in 1..Len(iter) |->
                       join(iter[i], CommaSpace) \o Space \o b.order_by.v[iter[i]]]
       IN IF terms # <<>>
          THEN <<"O", "R", "D", "E", "R", " ", "B", "Y", " ">> \o join(terms, CommaSpace)
          ELSE <<>>
  ELSE <<>>

\* LIMIT rendered from the offset option
limit_str_from_offset(b) ==
  IF is_some(b.offset) THEN <<"L", "I", "M", "I", "T", " ">> \o to_string(b.offset.v) ELSE <<>>

limit_str(b) ==
  IF is_some(b.limit) THEN <<"L", "I", "M", "I", "T", " ">> \o to_string(b.limit.v) ELSE <<>>

offset_str(b) ==
  IF is_some(b.offset)
  THEN <<"O", "F", "F", "S", "E", "T", " ">> \o to_string(b.offset.v)
  ELSE <<>>

\* HAVING emitted whenever a having-condition is set
having_str_ungated(b) ==
  IF is_some(b.having_condition)
  THEN <<"H", "A", "V", "I", "N", "G", " ">> \o condition_build(b.having_condition.v)
  ELSE <<>>

\* having should only be added if group_by is present
having_str(b) ==
  IF is_some(b.group_by) /\ is_some(b.having_condition)
  THEN <<"H", "A", "V", "I", "N", "G", " ">> \o condition_build(b.having_condition.v)
  ELSE <<>>

\* the format string with the ORDER BY and GROUP BY slots exchanged
query_format_swapped(d, c, t, w, g, h, o, l, f) ==
  <<"S", "E", "L", "E", "C", "T", " ">> \o d \o c \o <<" ", "F", "R", "O", "M", " ">> \o t
    \o Space \o w \o Space \o o \o Space \o h \o Space \o g \o Space \o (l \o Space \o f)

\* format!("SELECT {}{} FROM {} {} {} {} {} {}", ..., format!("{} {}", l, f))
query_format(d, c, t, w, g, h, o, l, f) ==
  <<"S", "E", "L", "E", "C", "T", " ">> \o d \o c \o <<" ", "F", "R", "O", "M", " ">> \o t
    \o Space \o w \o Space \o g \o Space \o h \o Space \o o \o Space \o (l \o Space \o f)

\* the statement build() compiles
build_query(b, iter) ==
  query_format(distinct_str(b), columns_str(b), table_name_str(b),
               where_condition_str(b), group_by_str(b), having_str(b),
               order_by_str(b, iter), limit_str(b), offset_str(b))


\* ------------------------------------------------ generate_statement
RECURSIVE push_each(_, _)
\* the loops of generate_statement: every item pushed onto s, each followed
\* by ", "
push_each(s, items) ==
  IF items = <<>> THEN s
  ELSE push_each(s \o Head(items) \o CommaSpace, Tail(items))

\* the statement for one row
insert_format(table_name, columns, values) ==
  <<"I", "N", "S", "E", "R", "T", " ", "I", "N", "T", "O", " ">> \o table_name \o <<" ", "(">>
    \o columns \o <<")", " ", "V", "A", "L", "U", "E", "S", " ", "(">> \o values \o <<")", ";">>

\* generate_statement with the value list popped once, not twice
generate_statement_one_pop(table_row) ==
  Ok(insert_format(get_name(table_row),
                   pop(pop(push_each(<<>>, get_column_fields(table_row)))),
                   pop(push_each(<<>>, convert_insert_values(get_column_values(table_row))))))

\* generate_statement: pushes every item with a separator, pops the last
\* separator, formats the statement
generate_statement(table_row) ==
  LET pushed_columns == push_each(<<>>, get_column_fields(table_row))
      converted_values == convert_insert_values(get_column_values(table_row))
      pushed_values == push_each(<<>>, converted_values)
  IN Ok(insert_format(get_name(table_row), pop(pop(pushed_columns)), pop(pop(pushed_values))))

\* ------------------------------------------------------------ records
\* the records the callers insert, and the record types they query into
Records ==
  {TableRow(users, <<id, name>>, <<Integer(1), Text(OBrien)>>),
   TableRow(users, <<id, name>>, <<Integer(MaxCount), Null>>),
   TableRow(users, <<name>>, <<Text(<<"a">>)>>),
   TableRow(audit, <<>>, <<>>)}

\* T::default() of the record types build() is instantiated with
RecordTypes == {UsersTable, TableRow(users, <<name>>, <<Text(<<>>)>>)}

\* ------------------------------------------------- the store (driver)
\* the one table of the database file, users(id, name)
Schema == {id, name}

\* the stored row an accepted INSERT of record r adds
stored_row(r) ==
  [c \in Schema |->
     IF \E i \in 1..Len(r.column_fields) : r.column_fields[i] = c
     THEN r.column_values[CHOOSE i \in 1..Len(r.column_fields) : r.column_fields[i] = c]
     ELSE Null]

\* the INSERT statement of the dialect for record r
sql_insert(r) ==
  <<"I", "N", "S", "E", "R", "T", " ", "I", "N", "T", "O", " ">> \o r.name \o <<" ", "(">>
    \o join(r.column_fields, CommaSpace)
    \o <<")", " ", "V", "A", "L", "U", "E", "S", " ", "(">>
    \o join(convert_insert_values(r.column_values), CommaSpace) \o <<")", ";">>

\* the records whose INSERT the store accepts as the given text: the table
\* exists, the column list is not empty and names columns of the table
sqlite_parse_insert(text) ==
  {r \in Records :
     /\ r.name = users
     /\ r.column_fields # <<>>
     /\ \A i \in 1..Len(r.column_fields) : r.column_fields[i] \in Schema
     /\ sql_insert(r) = text}

\* whether the store can prepare the SELECT compiled from b: a table that
\* exists, a column list that is not empty and names its columns, and no
\* OFFSET without LIMIT
statement_valid(b) ==
  /\ is_some(b.table)
  /\ get_name(b.table.v) = users
  /\ b.columns # <<>>
  /\ \A i \in 1..Len(b.columns) : b.columns[i] \in Schema
  /\ (is_some(b.offset) => is_some(b.limit))

\* whether the statement of b returns every row of the table, in order
unfiltered(b) ==
  /\ ~is_some(b.where_condition) /\ ~is_some(b.group_by)
  /\ ~is_some(b.order_by) /\ ~is_some(b.limit) /\ ~is_some(b.offset)
  /\ ~b.distinct

\* the result row of a stored row: the selected columns, in order
project(row, columns) == [i \in 1..Len(columns) |-> row[columns[i]]]

\* the ways to keep k row numbers out of n, in increasing order
Picks(n, k) == {s \in [1..k -> 1..n] : \A i, j \in 1..k : i < j => s[i] < s[j]}

\* the row sequences the store may return for the statement of b: all the
\* rows when nothing filters them, some of the rows otherwise (rows are
\* taken in stored order: the mapping of a row does not depend on where the
\* store puts it)
Fetch(rows, b) ==
  LET n == Len(rows)
      picks == IF unfiltered(b)
               THEN {[i \in 1..n |-> i]}
               ELSE UNION {Picks(n, k) : k \in 0..n}
  IN {[i \in 1..Len(s) |-> project(rows[s[i]], b.columns)] : s \in picks}

\* ------------------------------------------- build(): the row mapping
\* Row::get::<usize, Value>(idx): column idx of the row, counted from zero
row_get(row, idx) ==
  IF idx < Len(row) THEN Ok(row[idx + 1]) ELSE Err("InvalidColumnIndex")

\* Table::set_column_value: writes the field of that name
set_column_value(instance, column, value) ==
  [instance EXCEPT !.column_values =
     [j \in 1..Len(instance.column_fields) |->
        IF instance.column_fields[j] = column THEN value ELSE instance.column_values[j]]]

RECURSIVE map_fields(_, _, _, _)
\* the loop over columns.iter().enumerate(), from position index on
map_fields(instance, columns, index, row) ==
  IF index >= Len(columns) THEN Ok(instance)
  ELSE LET value == row_get(row, index + 1)
       IN IF value.tag = "Err" THEN value
          ELSE map_fields(set_column_value(instance, columns[index + 1], value.v),
                          columns, index + 1, row)

\* the closure given to query_map: a record of type T from one row
map_row(T, row) == map_fields(T, get_column_fields(T), 0, row)

\* the records of the rows that mapped, the failed ones left out
collect_skipping(row_results) ==
  Ok(LET ok == SelectSeq(row_results, LAMBDA r : r.tag = "Ok")
     IN [i \in 1..Len(ok) |-> ok[i].v])

\* collect::<Result<Vec<T>>>(): the first error, or all the records in order
collect(row_results) ==
  IF \E i \in 1..Len(row_results) : row_results[i].tag = "Err"
  THEN row_results[CHOOSE i \in 1..Len(row_results) :
                     /\ row_results[i].tag = "Err"
                     /\ \A j \in 1..(i - 1) : row_results[j].tag = "Ok"]
  ELSE Ok([i \in 1..Len(row_results) |-> row_results[i].v])

\* ---------------------------------------------------------------- state
VARIABLES
  qb,          \* the QueryBuilder
  bpc,         \* the position of the builder: "chain", then build() "compiled", "returned"
  calls,       \* per setter, the argument of its most recent call (history)
  query,       \* the statement build() compiled, while build() runs
  result,      \* what build() returned
  fetched,     \* the rows the store returned to build() (history)
  failed,      \* the step of build() that failed, "none" if none (history)
  rtype,       \* the record type build() was instantiated with (history)
  db,          \* the committed rows of the table
  ipc,         \* the position of insert()
  table_row,   \* the record insert() was given
  statement,   \* the statement insert() generated
  tx,          \* the uncommitted rows of the open transaction
  iret,        \* what insert() returned
  log,         \* the steps insert() has taken, with their outcome (history)
  db0,         \* the committed rows when insert() was called (history)
  inserted,    \* the records whose insert() returned Ok (history)
  twin,        \* a second QueryBuilder, given the same calls as qb
  twin_query   \* the statement the second builder compiled

builder_vars == <<qb, bpc, calls, query, result, fetched, failed, rtype>>
insert_vars == <<ipc, table_row, statement, tx, iret, log, db0, inserted>>
twin_vars == <<twin, twin_query>>
vars == <<builder_vars, db, insert_vars, twin_vars>>

NoCalls ==
  [select |-> None, distinct |-> None, from |-> None, where_clause |-> None,
   group_by |-> None, order_by |-> None, limit |-> None, offset |-> None,
   having |-> None]

InitBuilder ==
  /\ qb \in {new(c) : c \in {<<>>} \cup ColumnLists}
  /\ bpc = "chain"
  /\ calls = NoCalls
  /\ query = None
  /\ result = None
  /\ fetched = <<>>
  /\ failed = "none"
  /\ rtype = None

InitInsert ==
  /\ ipc = "idle"
  /\ table_row = None
  /\ statement = None
  /\ tx = None
  /\ iret = None
  /\ log = <<>>
  /\ db0 = <<>>
  /\ inserted = {}

InitTwin ==
  /\ twin = qb
  /\ twin_query = None

\* rows earlier inserts have left in the table
SeedRows ==
  <<stored_row(TableRow(users, <<id, name>>, <<Integer(1), Text(OBrien)>>)),
    stored_row(TableRow(users, <<id, name>>, <<Integer(MaxCount), Null>>)),
    stored_row(TableRow(users, <<name>>, <<Text(<<"a">>)>>))>>

Init ==
  /\ InitBuilder
  /\ InitInsert
  /\ InitTwin
  /\ db = SubSeq(SeedRows, 1, IF MaxRows <= Len(SeedRows) THEN MaxRows ELSE Len(SeedRows))

\* ------------------------------------------------- the setter actions
Chain(b, c) ==
  /\ bpc = "chain"
  /\ qb' = b
  /\ calls' = c
  /\ UNCHANGED <<bpc, query, result, fetched, failed, rtype, db, insert_vars, twin_vars>>

CallSelect ==
  \E c \in ColumnLists : Chain(select(qb, c), [calls EXCEPT !.select = Some(c)])

CallDistinct == Chain(distinct(qb), [calls EXCEPT !.distinct = Some(TRUE)])

CallFrom == Chain(from(qb, UsersTable), [calls EXCEPT !.from = Some(UsersTable)])

CallWhereClause ==
  \E c \in Conditions : Chain(where_clause(qb, c), [calls EXCEPT !.where_clause = Some(c)])

CallGroupBy ==
  \E c \in GroupLists : Chain(group_by(qb, c), [calls EXCEPT !.group_by = Some(c)])

CallOrderBy ==
  \E m \in OrderMaps : Chain(order_by(qb, m), [calls EXCEPT !.order_by = Some(m)])

CallLimit == \E n \in Counts : Chain(limit(qb, n), [calls EXCEPT !.limit = Some(n)])

CallOffset == \E n \in Counts : Chain(offset(qb, n), [calls EXCEPT !.offset = Some(n)])

CallHaving ==
  \E c \in HavingConditions : Chain(having(qb, c), [calls EXCEPT !.having = Some(c)])

\* -------------------------------------------------------------- build()
\* the order in which build() visits the entries of b's order_by map
BuildIters(b) == IF is_some(b.order_by) THEN IterOrders(b.order_by.v) ELSE {<<>>}

\* build::<T>(), first part: compiles the statement and prints it
BuildCompile ==
  /\ bpc = "chain"
  /\ bpc' = "compiled"
  /\ \E iter \in BuildIters(qb) : query' = Some(build_query(qb, iter))
  /\ UNCHANGED <<qb, calls, result, fetched, failed, rtype, db, insert_vars, twin_vars>>

\* build::<T>(), second part: prepares the statement, runs it, maps every
\* row, collects the records and returns
BuildExecute ==
  /\ bpc = "compiled"
  /\ bpc' = "returned"
  /\ query' = None
  /\ \E T \in RecordTypes, prepare_fails, query_fails \in BOOLEAN, rows \in Fetch(db, qb) :
       /\ rtype' = Some(T)
       /\ IF ~statement_valid(qb) \/ prepare_fails
          THEN /\ result' = Err("prepare")
               /\ failed' = "prepare"
               /\ fetched' = <<>>
          ELSE IF query_fails
          THEN /\ result' = Err("query_map")
               /\ failed' = "query_map"
               /\ fetched' = <<>>
          ELSE LET row_results == [i \in 1..Len(rows) |-> map_row(T, rows[i])]
               IN /\ result' = collect(row_results)
                  /\ failed' = IF \E i \in 1..Len(rows) : row_results[i].tag = "Err"
                               THEN "row" ELSE "none"
                  /\ fetched' = rows
  /\ UNCHANGED <<qb, calls, db, insert_vars, twin_vars>>

\* ------------------------------------------------------------- insert()
Step(s, ok) == [step |-> s, ok |-> ok]

\* insert(conn, table_row) is called and opens its transaction; a failure
\* returns the error
InsertTransaction ==
  /\ ipc = "idle"
  /\ Len(db) < MaxRows
  /\ \E r \in Records, ok \in BOOLEAN :
       /\ table_row' = Some(r)
       /\ log' = <<Step("transaction", ok)>>
       /\ IF ok
          THEN tx' = Some(<<>>) /\ ipc' = "generate" /\ iret' = None
          ELSE tx' = None /\ ipc' = "idle" /\ iret' = Err("transaction")
  /\ db0' = db
  /\ statement' = None
  /\ UNCHANGED <<db, inserted, builder_vars, twin_vars>>

\* insert() generates the statement; generate_statement returns Ok, and the
\* panic of the Err arm is never taken
InsertGenerate ==
  /\ ipc = "generate"
  /\ LET generated == generate_statement(table_row.v)
     IN /\ generated.tag = "Ok"
        /\ statement' = Some(generated.v)
  /\ log' = Append(log, Step("generate", TRUE))
  /\ ipc' = "execute"
  /\ UNCHANGED <<db, table_row, tx, iret, db0, inserted, builder_vars, twin_vars>>

\* what tx.execute leaves when the statement failed and insert() goes on
\* all the same
InsertExecute_unchecked ==
  /\ ipc = "execute"
  /\ \E fails \in BOOLEAN :
       LET parsed == sqlite_parse_insert(statement.v)
       IN IF parsed = {} \/ fails
          THEN /\ tx' = tx
               /\ log' = Append(log, Step("execute", FALSE))
          ELSE /\ tx' = Some(Append(tx.v, stored_row(CHOOSE r \in parsed : TRUE)))
               /\ log' = Append(log, Step("execute", TRUE))
  /\ ipc' = "commit"
  /\ UNCHANGED <<db, table_row, statement, iret, db0, inserted, builder_vars, twin_vars>>

\* insert() executes the statement in the transaction; on a failure it
\* returns the error, and the transaction, dropped, rolls back
InsertExecute ==
  /\ ipc = "execute"
  /\ \E fails \in BOOLEAN :
       LET parsed == sqlite_parse_insert(statement.v)
       IN IF parsed = {} \/ fails
          THEN /\ tx' = None
               /\ ipc' = "idle"
               /\ iret' = Err("execute")
               /\ log' = Append(log, Step("execute", FALSE))
          ELSE /\ tx' = Some(Append(tx.v, stored_row(CHOOSE r \in parsed : TRUE)))
               /\ ipc' = "commit"
               /\ iret' = iret
               /\ log' = Append(log, Step("execute", TRUE))
  /\ UNCHANGED <<db, table_row, statement, db0, inserted, builder_vars, twin_vars>>

\* insert() commits and returns; a failed commit returns the error and
\* leaves the table as it was
InsertCommit ==
  /\ ipc = "commit"
  /\ \E ok \in BOOLEAN :
       /\ log' = Append(log, Step("commit", ok))
       /\ IF ok
          THEN /\ db' = db \o tx.v
               /\ iret' = Ok(<<>>)
               /\ inserted' = inserted \cup {table_row.v}
          ELSE /\ db' = db
               /\ iret' = Err("commit")
               /\ inserted' = inserted
  /\ tx' = None
  /\ ipc' = "idle"
  /\ UNCHANGED <<table_row, statement, db0, builder_vars, twin_vars>>

Next ==
  \/ CallSelect
  \/ CallDistinct
  \/ CallFrom
  \/ CallWhereClause
  \/ CallGroupBy
  \/ CallOrderBy
  \/ CallLimit
  \/ CallOffset
  \/ CallHaving
  \/ BuildCompile
  \/ BuildExecute

Spec == Init /\ [][Next]_vars

\* ------------------------------------------------ insert() on its own
InitEmpty ==
  /\ InitBuilder
  /\ InitInsert
  /\ InitTwin
  /\ db = <<>>

NextInsert ==
  \/ InsertTransaction
  \/ InsertGenerate
  \/ InsertExecute
  \/ InsertCommit

SpecInsert == InitEmpty /\ [][NextInsert]_vars

\* ------------------------------------- inserts, and then an open query
\* inserts begin while the builder is chained
RoundTripInsert == bpc = "chain" /\ InsertTransaction

\* the query runs once every insert has returned
RoundTripExecute == ipc = "idle" /\ BuildExecute

NextRoundTrip ==
  \/ RoundTripInsert
  \/ InsertGenerate
  \/ InsertExecute
  \/ InsertCommit
  \/ CallSelect
  \/ CallFrom
  \/ BuildCompile
  \/ RoundTripExecute

SpecRoundTrip == InitEmpty /\ [][NextRoundTrip]_vars

\* ------------------------------- two builders given the same calls
SetterCalls ==
  {[fn |-> "select", arg |-> c] : c \in ColumnLists}
    \cup {[fn |-> "distinct", arg |-> TRUE], [fn |-> "from", arg |-> UsersTable]}
    \cup {[fn |-> "where_clause", arg |-> c] : c \in Conditions}
    \cup {[fn |-> "group_by", arg |-> c] : c \in GroupLists}
    \cup {[fn |-> "order_by", arg |-> m] : m \in OrderMaps}
    \cup {[fn |-> "limit", arg |-> n] : n \in Counts}
    \cup {[fn |-> "offset", arg |-> n] : n \in Counts}
    \cup {[fn |-> "having", arg |-> c] : c \in HavingConditions}

\* the builder after one setter call
apply_call(b, call) ==
  CASE call.fn = "select" -> select(b, call.arg)
    [] call.fn = "distinct" -> distinct(b)
    [] call.fn = "from" -> from(b, call.arg)
    [] call.fn = "where_clause" -> where_clause(b, call.arg)
    [] call.fn = "group_by" -> group_by(b, call.arg)
    [] call.fn = "order_by" -> order_by(b, call.arg)
    [] call.fn = "limit" -> limit(b, call.arg)
    [] call.fn = "offset" -> offset(b, call.arg)
    [] call.fn = "having" -> having(b, call.arg)

\* both builders are given the same setter call
TwinChain ==
  /\ bpc = "chain"
  /\ \E call \in SetterCalls :
       /\ qb' = apply_call(qb, call)
       /\ twin' = apply_call(twin, call)
       /\ calls' = [calls EXCEPT ![call.fn] = Some(call.arg)]
  /\ UNCHANGED <<bpc, query, result, fetched, failed, rtype, db, insert_vars, twin_query>>

\* both builders compile their statement, each iterating its own hash map
TwinCompile ==
  /\ bpc = "chain"
  /\ bpc' = "compiled"
  /\ \E iter \in BuildIters(qb) : query' = Some(build_query(qb, iter))
  /\ \E iter \in BuildIters(twin) : twin_query' = Some(build_query(twin, iter))
  /\ UNCHANGED <<qb, calls, result, fetched, failed, rtype, db, insert_vars, twin>>

NextTwin ==
  \/ TwinChain
  \/ TwinCompile

SpecTwin == Init /\ [][NextTwin]_vars

\* ------------------------------------------------- properties: text
\* pat occurs in text at position i
OccursAt(text, pat, i) ==
  /\ i + Len(pat) - 1 <= Len(text)
  /\ text[i] = pat[1]
  /\ SubSeq(text, i, i + Len(pat) - 1) = pat

Contains(text, pat) == \E i \in 1..Len(text) : OccursAt(text, pat, i)

EndsWith(text, pat) ==
  Len(pat) <= Len(text) /\ SubSeq(text, Len(text) - Len(pat) + 1, Len(text)) = pat

KwSelect == <<"S", "E", "L", "E", "C", "T">>
KwDistinct == <<"D", "I", "S", "T", "I", "N", "C", "T">>
KwFrom == <<"F", "R", "O", "M">>
KwWhere == <<"W", "H", "E", "R", "E">>
KwGroupBy == <<"G", "R", "O", "U", "P", " ", "B", "Y">>
KwHaving == <<"H", "A", "V", "I", "N", "G">>
KwOrderBy == <<"O", "R", "D", "E", "R", " ", "B", "Y">>
KwLimit == <<"L", "I", "M", "I", "T">>
KwOffset == <<"O", "F", "F", "S", "E", "T">>

\* the clause keywords in the order of the grammar
ClauseOrder ==
  <<KwSelect, KwDistinct, KwFrom, KwWhere, KwGroupBy, KwHaving, KwOrderBy, KwLimit, KwOffset>>

ExampleQuery ==
  <<"S", "E", "L", "E", "C", "T", " ", "i", "d", ",", " ", "n", "a", "m", "e", " ",
    "F", "R", "O", "M", " ", "u", "s", "e", "r", "s", " ",
    "W", "H", "E", "R", "E", " ", "i", "d", " ", "=", " ", "5">>

\* the builder was given exactly select(["id","name"]), from(users) and
\* where_clause(id = 5)
ExampleCalls ==
  calls = [NoCalls EXCEPT !.select = Some(<<id, name>>), !.from = Some(UsersTable),
                          !.where_clause = Some(Eq(id, Integer(5)))]

\* C1: the compiled text has no two consecutive spaces and no trailing
\* space, and the builder of the example compiles to exactly
\* SELECT id, name FROM users WHERE id = 5
C1_NoPadding ==
  is_some(query) =>
    /\ ~Contains(query.v, <<" ", " ">>)
    /\ ~EndsWith(query.v, <<" ">>)
    /\ (ExampleCalls => query.v = ExampleQuery)

\* C3: the compiled text holds a HAVING clause only when both group_by()
\* and having() were called; never when group_by() was not called
C3_HavingOnlyWithGroupBy ==
  is_some(query) =>
    /\ (~is_some(calls.group_by) => ~Contains(query.v, KwHaving))
    /\ (Contains(query.v, KwHaving) => is_some(calls.group_by) /\ is_some(calls.having))

\* having() was called, group_by() was not, and build() compiled the text
C3_Witness ==
  is_some(query) /\ is_some(calls.having) /\ ~is_some(calls.group_by)

\* the positions of pat in text, in increasing order
PositionSeq(text, pat) ==
  SelectSeq([i \in 1..Len(text) |-> i], LAMBDA i : OccursAt(text, pat, i))

\* for each clause keyword, its positions in the text
KeywordsAt(text) ==
  <<PositionSeq(text, ClauseOrder[1]), PositionSeq(text, ClauseOrder[2]),
    PositionSeq(text, ClauseOrder[3]), PositionSeq(text, ClauseOrder[4]),
    PositionSeq(text, ClauseOrder[5]), PositionSeq(text, ClauseOrder[6]),
    PositionSeq(text, ClauseOrder[7]), PositionSeq(text, ClauseOrder[8]),
    PositionSeq(text, ClauseOrder[9])>>

\* the option of each optional clause, by the setter that configures it
OptionalClauses ==
  <<[kw |-> KwDistinct, set |-> is_some(calls.distinct)],
    [kw |-> KwWhere, set |-> is_some(calls.where_clause)],
    [kw |-> KwGroupBy, set |-> is_some(calls.group_by)],
    [kw |-> KwHaving, set |-> is_some(calls.having)],
    [kw |-> KwOrderBy, set |-> is_some(calls.order_by)],
    [kw |-> KwLimit, set |-> is_some(calls.limit)],
    [kw |-> KwOffset, set |-> is_some(calls.offset)]>>

\* C5: whatever the order of the setter calls, each clause keyword of the
\* compiled text occurs once, after every keyword that precedes it in the
\* order SELECT, DISTINCT, FROM, WHERE, GROUP BY, HAVING, ORDER BY, LIMIT,
\* OFFSET, and the clause of an unset option is left out
C5_FixedClauseOrder ==
  is_some(query) =>
    \E at \in {KeywordsAt(query.v)} :
      /\ at[1] = <<1>>
      /\ Len(at[3]) = 1
      /\ \A k \in 1..Len(ClauseOrder) : Len(at[k]) <= 1
      /\ \A k, l \in 1..Len(ClauseOrder) :
           (k < l /\ at[k] # <<>> /\ at[l] # <<>>) => at[k][1] < at[l][1]
      /\ \A k \in 1..Len(OptionalClauses) :
           ~OptionalClauses[k].set => ~Contains(query.v, OptionalClauses[k].kw)

\* every clause is in the compiled text
C5_Witness ==
  /\ is_some(query)
  /\ \A k \in 1..Len(ClauseOrder) : Contains(query.v, ClauseOrder[k])

\* C8: the compiled text holds LIMIT <n> exactly when limit() was called and
\* OFFSET <n> exactly when offset() was called, each whatever the other,
\* with <n> the argument of the most recent call
C8_LimitOffsetIffCalled ==
  is_some(query) =>
    /\ Contains(query.v, KwLimit) <=> is_some(calls.limit)
    /\ Contains(query.v, KwOffset) <=> is_some(calls.offset)
    /\ is_some(calls.limit) =>
         Contains(query.v, KwLimit \o Space \o to_string(calls.limit.v) \o Space)
    /\ is_some(calls.offset) =>
         EndsWith(query.v, Space \o KwOffset \o Space \o to_string(calls.offset.v))

\* offset() was called with one count, limit() with another, and build()
\* compiled the text
C8_Witness ==
  /\ is_some(query)
  /\ is_some(calls.limit) /\ is_some(calls.offset)
  /\ calls.limit.v # calls.offset.v

\* C9: an empty order_by mapping compiles to no ORDER BY clause; the clause
\* is there only when the mapping given has an entry
C9_EmptyOrderByOmitted ==
  is_some(query) =>
    /\ (calls.order_by = Some(EmptyMap) => ~Contains(query.v, KwOrderBy))
    /\ (Contains(query.v, KwOrderBy) =>
          is_some(calls.order_by) /\ DOMAIN calls.order_by.v # {})

\* build() compiled the text of a builder given an empty order_by mapping
C9_Witness == is_some(query) /\ calls.order_by = Some(EmptyMap)

\* ------------------------------------------------ properties: results
\* C6: build() returns a failure or the complete result: when preparing,
\* running or mapping a row failed it returns an error, which holds no
\* record; when it returns Ok, the sequence has the record of every fetched
\* row, in fetch order
C6_AllOrNothing ==
  bpc = "returned" =>
    /\ failed # "none" => result.tag = "Err" /\ DOMAIN result = {"tag", "e"}
    /\ failed = "none" => result.tag = "Ok"
    /\ result.tag = "Ok" =>
         /\ Len(result.v) = Len(fetched)
         /\ \A i \in 1..Len(fetched) : Ok(result.v[i]) = map_row(rtype.v, fetched[i])

\* build() returned the records of two or more rows
C6_Witness == bpc = "returned" /\ result.tag = "Ok" /\ Len(result.v) >= 2

\* one row of several failed to map
C6_WitnessRowError == bpc = "returned" /\ failed = "row" /\ Len(fetched) >= 2

\* ----------------------------------------------- properties: insert()
ExampleInsert ==
  <<"I", "N", "S", "E", "R", "T", " ", "I", "N", "T", "O", " ", "u", "s", "e", "r", "s", " ",
    "(", "i", "d", ",", " ", "n", "a", "m", "e", ")", " ",
    "V", "A", "L", "U", "E", "S", " ", "(", "1", ",", " ",
    "'", "O", "'", "'", "B", "r", "i", "e", "n", "'", ")", ";">>

ExampleRow == TableRow(users, <<id, name>>, <<Integer(1), Text(OBrien)>>)

\* C4: the statement generated for a record of N fields and N values is
\* INSERT INTO <name> (<columns>) VALUES (<values>); with the N names and the
\* N literals, the i-th literal that of the i-th value, each list joined by
\* ", " with no trailing separator
C4_InsertStatementAligned ==
  is_some(statement) =>
    LET r == table_row.v
    IN /\ statement.v = sql_insert(r)
       /\ (r = ExampleRow => statement.v = ExampleInsert)
       /\ (r.column_fields = <<>> => statement.v = sql_insert(TableRow(r.name, <<>>, <<>>)))

\* the statement of the example row was generated
C4_Witness == is_some(statement) /\ table_row.v = ExampleRow

\* the statement of a record with no field was generated
C4_WitnessNoField == is_some(statement) /\ table_row.v.column_fields = <<>>

InsertOrder == <<"transaction", "generate", "execute", "commit">>

\* C7: insert() takes its steps in the order open transaction, compose,
\* execute, commit, each only after the ones before it succeeded; when
\* opening the transaction or executing fails it returns an error, never
\* commits, and leaves the table as it was with no transaction open
C7_CommitOnlyAfterExecute ==
  /\ Len(log) <= Len(InsertOrder)
  /\ \A i \in 1..Len(log) : log[i].step = InsertOrder[i]
  /\ \A i \in 1..(Len(log) - 1) : log[i].ok
  /\ (/\ log # <<>>
      /\ ~log[Len(log)].ok
      /\ log[Len(log)].step \in {"transaction", "execute"}) =>
       /\ ipc = "idle"
       /\ iret.tag = "Err"
       /\ tx = None
       /\ db = db0

\* executing failed with rows committed earlier in the table
C7_Witness ==
  /\ log # <<>>
  /\ log[Len(log)] = Step("execute", FALSE)
  /\ db # <<>>

\* -------------------------------------------- properties: round trip
\* C2: once insert() of a record R has succeeded, the query that selects
\* R's fields from R's table with no filter, built for R's record type,
\* succeeds and returns a record equal to R on every field
C2_RoundTrip ==
  (bpc = "returned" /\ failed \notin {"prepare", "query_map"}) =>
    \A r \in inserted :
      (/\ qb.columns = r.column_fields
       /\ is_some(qb.table) /\ get_name(qb.table.v) = r.name
       /\ unfiltered(qb)
       /\ get_column_fields(rtype.v) = r.column_fields) =>
        /\ result.tag = "Ok"
        /\ \E i \in 1..Len(result.v) : result.v[i].column_values = r.column_values

\* ------------------------------------------- properties: determinism
\* C10: two builders given the same sequence of setter calls compile to the
\* same text
C10_SameCallsSameText ==
  (is_some(query) /\ is_some(twin_query) /\ twin = qb) => query.v = twin_query.v

====
